---- MODULE Spec2Model ----
(***************************************************************************)
(* A model of src/main.py: the breadth-first repository walk of            *)
(* GitHubRepoExtractor.extract_frontend_files and the session bookkeeping  *)
(* of main (Generate UI, Submit Feedback and Improve, Start Over).         *)
(*                                                                         *)
(* Strings are sequences of tokens: "github.com", "/", "." and a few       *)
(* words stand for the substrings the code splits on or carries along.     *)
(***************************************************************************)
EXTENDS Integers, Sequences, FiniteSets, TLC

\* ------------------------------------------------------------- bounds
\* the longest repository URL, in tokens
MaxUrlLen == 5
\* the number of entries of a remote tree, all listings together
MaxTotal == 3
\* the highest version number a session reaches
MaxVersion == 4
\* the longest feedback history of a session
MaxHistory == 3

\* ------------------------------------------------------------ helpers
NoneValue == "None"

\* a returned value: None, or a list
ReturnedNone == [isNone |-> TRUE, value |-> <<>>]

Returned(v) == [isNone |-> FALSE, value |-> v]

Range(s) == {s[i] : i \in 1..Len(s)}

SeqsUpTo(S, n) == UNION {[1..k -> S] : k \in 0..n}

IsPrefix(s, t) == Len(s) <= Len(t) /\ SubSeq(t, 1, Len(s)) = s

\* ------------------------------------------------------- URL parsing
UrlTokens == {"github.com", "/", "acme", "widgets"}

URLs == SeqsUpTo(UrlTokens, MaxUrlLen)

\* "github.com/acme/widgets"
CanonicalURL == <<"github.com", "/", "acme", "/", "widgets">>

\* repo_url.split('github.com/')[-1]: what follows the last host marker,
\* the whole string when there is none
AfterHostMarker(u) ==
    LET marks == {i \in 1..(Len(u) - 1) : u[i] = "github.com" /\ u[i + 1] = "/"}
    IN  IF marks = {} THEN u
        ELSE LET last == CHOOSE i \in marks : \A j \in marks : j <= i
             IN  SubSeq(u, last + 2, Len(u))

\* s.split('/'): the segments between slashes, empty segments kept
RECURSIVE SplitSlash(_)
SplitSlash(s) ==
    LET slashes == {i \in 1..Len(s) : s[i] = "/"}
    IN  IF slashes = {} THEN <<s>>
        ELSE LET first == CHOOSE i \in slashes : \A j \in slashes : i <= j
             IN  <<SubSeq(s, 1, first - 1)>> \o SplitSlash(SubSeq(s, first + 1, Len(s)))

\* parts = repo_url.split('github.com/')[-1].split('/')
UrlParts(u) == SplitSlash(AfterHostMarker(u))

\* parts[1] raises IndexError when there is one part only
ParseRaises(u) == Len(UrlParts(u)) < 2

\* --------------------------------------------------- the remote tree
Dirs == {"", "a", "b"}

\* a slip: the suffix taken from the last dot wherever it stands, so that
\* the dot-file ".js" has the suffix ".js"
SuffixAnyDot(name) ==
    LET dots == {i \in 1..Len(name) : name[i] = "."}
    IN  IF dots = {} THEN <<>>
        ELSE LET last == CHOOSE i \in dots : \A j \in dots : j <= i
             IN  SubSeq(name, last, Len(name))

\* Path(name).suffix: from the last dot on, when that dot is neither
\* the first nor the last character of the name
Suffix(name) ==
    LET dots == {i \in 1..Len(name) : name[i] = "."}
    IN  IF dots = {} THEN <<>>
        ELSE LET last == CHOOSE i \in dots : \A j \in dots : j <= i
             IN  IF 1 < last /\ last < Len(name)
                 THEN SubSeq(name, last, Len(name))
                 ELSE <<>>

\* a slip: the allow-list without '.py'
frontend_extensions_no_py ==
    { <<".", "html">>, <<".", "css">>, <<".", "js">>, <<".", "jsx">>,
      <<".", "tsx">>, <<".", "vue">> }

frontend_extensions ==
    { <<".", "html">>, <<".", "css">>, <<".", "js">>, <<".", "jsx">>,
      <<".", "tsx">>, <<".", "vue">>, <<".", "py">> }

\* the download_url of an entry that is no file: null
NoUrl == <<>>

DirEntry(p) ==
    [type |-> "dir", path |-> p, name |-> <<p>>, download_url |-> NoUrl]

FileEntry(p, n) ==
    [type |-> "file", path |-> p, name |-> n, download_url |-> <<"raw", p>>]

\* the entries a listing is made of: the three directories (the root
\* among them, so a listing can name its own ancestor), two files of
\* allow-listed extensions, a README, a dot-file named ".js", and an
\* entry that is neither a directory nor a file
Entries ==
    {DirEntry(d) : d \in Dirs}
    \cup { FileEntry("a/app.js", <<"app", ".", "js">>),
           FileEntry("run.py", <<"run", ".", "py">>),
           FileEntry("README.md", <<"README", ".", "md">>),
           FileEntry(".js", <<".", "js">>),
           [type |-> "symlink", path |-> "link", name |-> <<"link">>,
            download_url |-> NoUrl] }

\* the text behind a download_url
Content(url) == <<"text of", url>>

\* a response body: an array of entries, or (isList = FALSE) one object
Response(items, isList) == [isList |-> isList, body |-> items]

\* a remote tree: a sequence of entries cut in three listings, a
\* one-file listing served as an array or as an object
TreeOf(s, c1, c2, objects) ==
    LET listing ==
            [d \in Dirs |->
                IF d = "" THEN SubSeq(s, 1, c1)
                ELSE IF d = "a" THEN SubSeq(s, c1 + 1, c2)
                ELSE SubSeq(s, c2 + 1, Len(s))]
    IN  [d \in Dirs |-> Response(listing[d], d \notin objects)]

MayBeObject(s, c1, c2) ==
    LET t == TreeOf(s, c1, c2, {})
    IN  {d \in Dirs : Len(t[d].body) = 1 /\ t[d].body[1].type = "file"}

EmptyTree == [d \in Dirs |-> Response(<<>>, TRUE)]


\* -------------------------------------------------------------- state
VARIABLES
    \* extract_frontend_files: its argument, its position, its locals
    repo_url, pc, owner, repo_name, to_process, processed_paths,
    frontend_files, current_path, contents, idx,
    \* what the call hands back: the returned value and the return
    \* statement that produced it ("files", "empty", "error")
    result, outcome,
    \* the remote side: the tree served, and a log of the requests made
    remote, listCount, listOrder, listFailed, enqOrder, origin, fetched,
    fetchFailed,
    \* st.session_state, and the last notice main showed
    generated_code, feedback_history, current_version, notice

walkVars ==
    <<repo_url, pc, owner, repo_name, to_process, processed_paths,
      frontend_files, current_path, contents, idx, result, outcome>>

remoteVars ==
    <<remote, listCount, listOrder, listFailed, enqOrder, origin, fetched,
      fetchFailed>>

sessionVars == <<generated_code, feedback_history, current_version, notice>>

vars == <<walkVars, remoteVars, sessionVars>>

\* ------------------------------------------------ the walk's pieces
\* a slip: to_process.pop(), the back of the queue
DequeueLast(q) == [head |-> q[Len(q)], rest |-> SubSeq(q, 1, Len(q) - 1)]

\* to_process.pop(0): the front of the queue and what is left of it.
\* A queue element (path, []) is modelled by its path: the second
\* component is the empty list throughout and is never read.
Dequeue(q) == [head |-> Head(q), rest |-> Tail(q)]

\* a slip: the path is never added
MarkProcessedForgets(S, p) == S

\* processed_paths.add(current_path)
MarkProcessed(S, p) == S \cup {p}

\* if not isinstance(contents, list): contents = [contents]
Normalize(resp) == IF resp.isList THEN resp.body ELSE <<resp.body[1]>>

\* Path(item['name']).suffix in frontend_extensions
IsFrontend(item) == Suffix(item.name) \in frontend_extensions

\* the record appended for a fetched file
MakeRecord(item, text) ==
    [path |-> item.path, content |-> text, type |-> Suffix(item.name)]

\* where the for loop over contents stands after entry i
AfterItem(items, i) == IF i < Len(items) THEN "items" ELSE "loop"

\* the request log: one more listing request for path p (the count stops
\* at two: what matters is whether a path was requested more than once)
LogListing(p) ==
    /\ listCount' = [listCount EXCEPT ![p] = IF @ < 2 THEN @ + 1 ELSE @]
    /\ listOrder' = IF p \in Range(listOrder) THEN listOrder
                    ELSE Append(listOrder, p)

\* ---------------------------------------------------------- initial
InitSession ==
    /\ generated_code = NoneValue
    /\ feedback_history = <<>>
    /\ current_version = 0
    /\ notice = "none"

InitWalk(u, t) ==
    /\ repo_url = u
    /\ remote = t
    /\ pc = "start"
    /\ owner = <<>>
    /\ repo_name = <<>>
    /\ to_process = <<>>
    /\ processed_paths = {}
    /\ frontend_files = <<>>
    /\ current_path = NoneValue
    /\ contents = <<>>
    /\ idx = 0
    /\ result = ReturnedNone
    /\ outcome = "running"
    /\ listCount = [d \in Dirs |-> 0]
    /\ listOrder = <<>>
    /\ listFailed = {}
    /\ enqOrder = <<>>
    /\ origin = <<>>
    /\ fetched = {}
    /\ fetchFailed = {}

\* One call of extract_frontend_files: the canonical URL against every
\* remote tree of at most MaxTotal entries, every other URL against the
\* empty repository.
Init ==
    /\ InitSession
    /\ \/ \E s \in SeqsUpTo(Entries, MaxTotal) :
             \E c1 \in 0..Len(s) : \E c2 \in c1..Len(s) :
                 \E objects \in SUBSET MayBeObject(s, c1, c2) :
                     InitWalk(CanonicalURL, TreeOf(s, c1, c2, objects))
       \/ \E u \in URLs \ {CanonicalURL} : InitWalk(u, EmptyTree)

\* ---------------------------------------------------------- actions
\* parts[1] raises IndexError: the outer handler reports and returns None
ParseFail ==
    /\ pc = "start"
    /\ ParseRaises(repo_url)
    /\ pc' = "done"
    /\ result' = ReturnedNone
    /\ outcome' = "error"
    /\ UNCHANGED <<repo_url, owner, repo_name, to_process, processed_paths,
                   frontend_files, current_path, contents, idx>>
    /\ UNCHANGED <<remoteVars, sessionVars>>

\* owner, repo_name = parts[0], parts[1]; the queue holds the root path
ParseOk ==
    /\ pc = "start"
    /\ ~ParseRaises(repo_url)
    /\ owner' = UrlParts(repo_url)[1]
    /\ repo_name' = UrlParts(repo_url)[2]
    /\ frontend_files' = <<>>
    /\ to_process' = <<"">>
    /\ processed_paths' = {}
    /\ enqOrder' = <<"">>
    /\ pc' = "loop"
    /\ UNCHANGED <<repo_url, current_path, contents, idx, result, outcome>>
    /\ UNCHANGED <<remote, listCount, listOrder, listFailed, origin, fetched,
                   fetchFailed>>
    /\ UNCHANGED sessionVars

\* a slip: a processed path goes back to the end of the queue
SkipRequeues ==
    /\ pc = "loop"
    /\ to_process # <<>>
    /\ Dequeue(to_process).head \in processed_paths
    /\ current_path' = Dequeue(to_process).head
    /\ to_process' = Append(Dequeue(to_process).rest, Dequeue(to_process).head)
    /\ UNCHANGED <<repo_url, pc, owner, repo_name, processed_paths,
                   frontend_files, contents, idx, result, outcome>>
    /\ UNCHANGED <<remoteVars, sessionVars>>

\* the popped path is in processed_paths: continue
SkipProcessed ==
    /\ pc = "loop"
    /\ to_process # <<>>
    /\ Dequeue(to_process).head \in processed_paths
    /\ current_path' = Dequeue(to_process).head
    /\ to_process' = Dequeue(to_process).rest
    /\ UNCHANGED <<repo_url, pc, owner, repo_name, processed_paths,
                   frontend_files, contents, idx, result, outcome>>
    /\ UNCHANGED <<remoteVars, sessionVars>>

\* a slip: no inner handler, the failure reaches the outer one, which
\* reports the error and returns None
ListFailAborts ==
    /\ pc = "loop"
    /\ to_process # <<>>
    /\ Dequeue(to_process).head \notin processed_paths
    /\ current_path' = Dequeue(to_process).head
    /\ to_process' = Dequeue(to_process).rest
    /\ processed_paths' = MarkProcessed(processed_paths, current_path')
    /\ LogListing(current_path')
    /\ listFailed' = listFailed \cup {current_path'}
    /\ pc' = "done"
    /\ result' = ReturnedNone
    /\ outcome' = "error"
    /\ UNCHANGED <<repo_url, owner, repo_name, frontend_files, contents, idx>>
    /\ UNCHANGED <<remote, enqOrder, origin, fetched, fetchFailed>>
    /\ UNCHANGED sessionVars

\* a fresh path is popped and marked; get_repo_contents raises on a
\* status other than 200: the inner handler warns and continues
ListFail ==
    /\ pc = "loop"
    /\ to_process # <<>>
    /\ Dequeue(to_process).head \notin processed_paths
    /\ current_path' = Dequeue(to_process).head
    /\ to_process' = Dequeue(to_process).rest
    /\ processed_paths' = MarkProcessed(processed_paths, current_path')
    /\ LogListing(current_path')
    /\ listFailed' = listFailed \cup {current_path'}
    /\ pc' = "loop"
    /\ UNCHANGED <<repo_url, owner, repo_name, frontend_files, contents, idx,
                   result, outcome>>
    /\ UNCHANGED <<remote, enqOrder, origin, fetched, fetchFailed>>
    /\ UNCHANGED sessionVars

\* a fresh path is popped and marked; the listing arrives and is
\* normalised to a list
ListOk ==
    /\ pc = "loop"
    /\ to_process # <<>>
    /\ Dequeue(to_process).head \notin processed_paths
    /\ current_path' = Dequeue(to_process).head
    /\ to_process' = Dequeue(to_process).rest
    /\ processed_paths' = MarkProcessed(processed_paths, current_path')
    /\ LogListing(current_path')
    /\ contents' = Normalize(remote[current_path'])
    /\ idx' = 0
    /\ pc' = AfterItem(contents', 0)
    /\ UNCHANGED <<repo_url, owner, repo_name, frontend_files, result, outcome>>
    /\ UNCHANGED <<remote, listFailed, enqOrder, origin, fetched, fetchFailed>>
    /\ UNCHANGED sessionVars

\* item['type'] == 'dir': its path joins the queue
ItemDir ==
    /\ pc = "items"
    /\ LET item == contents[idx + 1]
       IN  /\ item.type = "dir"
           /\ to_process' = Append(to_process, item.path)
           /\ enqOrder' = IF item.path \in Range(enqOrder) THEN enqOrder
                          ELSE Append(enqOrder, item.path)
    /\ idx' = idx + 1
    /\ pc' = AfterItem(contents, idx')
    /\ UNCHANGED <<repo_url, owner, repo_name, processed_paths, frontend_files,
                   current_path, contents, result, outcome>>
    /\ UNCHANGED <<remote, listCount, listOrder, listFailed, origin, fetched,
                   fetchFailed>>
    /\ UNCHANGED sessionVars

\* a file of an allow-listed extension whose content arrives: a record
ItemFetchOk ==
    /\ pc = "items"
    /\ LET item == contents[idx + 1]
       IN  /\ item.type = "file"
           /\ IsFrontend(item)
           /\ frontend_files' =
                  Append(frontend_files, MakeRecord(item, Content(item.download_url)))
    /\ origin' = Append(origin, <<current_path, idx + 1>>)
    /\ fetched' = fetched \cup {<<current_path, idx + 1>>}
    /\ idx' = idx + 1
    /\ pc' = AfterItem(contents, idx')
    /\ UNCHANGED <<repo_url, owner, repo_name, to_process, processed_paths,
                   current_path, contents, result, outcome>>
    /\ UNCHANGED <<remote, listCount, listOrder, listFailed, enqOrder, fetchFailed>>
    /\ UNCHANGED sessionVars

\* a slip: no innermost handler, the failure reaches the handler of the
\* listing, which gives up the rest of the listing
ItemFetchFailAborts ==
    /\ pc = "items"
    /\ LET item == contents[idx + 1]
       IN  /\ item.type = "file"
           /\ IsFrontend(item)
    /\ fetched' = fetched \cup {<<current_path, idx + 1>>}
    /\ fetchFailed' = fetchFailed \cup {<<current_path, idx + 1>>}
    /\ idx' = idx + 1
    /\ pc' = "loop"
    /\ UNCHANGED <<repo_url, owner, repo_name, to_process, processed_paths,
                   frontend_files, current_path, contents, result, outcome>>
    /\ UNCHANGED <<remote, listCount, listOrder, listFailed, enqOrder, origin>>
    /\ UNCHANGED sessionVars

\* get_file_content raises: the innermost handler warns, no record
ItemFetchFail ==
    /\ pc = "items"
    /\ LET item == contents[idx + 1]
       IN  /\ item.type = "file"
           /\ IsFrontend(item)
    /\ fetched' = fetched \cup {<<current_path, idx + 1>>}
    /\ fetchFailed' = fetchFailed \cup {<<current_path, idx + 1>>}
    /\ idx' = idx + 1
    /\ pc' = AfterItem(contents, idx')
    /\ UNCHANGED <<repo_url, owner, repo_name, to_process, processed_paths,
                   frontend_files, current_path, contents, result, outcome>>
    /\ UNCHANGED <<remote, listCount, listOrder, listFailed, enqOrder, origin>>
    /\ UNCHANGED sessionVars

\* a file of another extension, or an entry that is neither 'dir' nor
\* 'file': nothing happens
ItemIgnored ==
    /\ pc = "items"
    /\ LET item == contents[idx + 1]
       IN  IF item.type = "file" THEN ~IsFrontend(item) ELSE item.type # "dir"
    /\ idx' = idx + 1
    /\ pc' = AfterItem(contents, idx')
    /\ UNCHANGED <<repo_url, owner, repo_name, to_process, processed_paths,
                   frontend_files, current_path, contents, result, outcome>>
    /\ UNCHANGED <<remoteVars, sessionVars>>

\* the queue is empty and nothing was collected: warn, return None
ReturnNone ==
    /\ pc = "loop"
    /\ to_process = <<>>
    /\ frontend_files = <<>>
    /\ pc' = "done"
    /\ result' = ReturnedNone
    /\ outcome' = "empty"
    /\ UNCHANGED <<repo_url, owner, repo_name, to_process, processed_paths,
                   frontend_files, current_path, contents, idx>>
    /\ UNCHANGED <<remoteVars, sessionVars>>

\* the queue is empty: return frontend_files
ReturnFiles ==
    /\ pc = "loop"
    /\ to_process = <<>>
    /\ frontend_files # <<>>
    /\ pc' = "done"
    /\ result' = Returned(frontend_files)
    /\ outcome' = "files"
    /\ UNCHANGED <<repo_url, owner, repo_name, to_process, processed_paths,
                   frontend_files, current_path, contents, idx>>
    /\ UNCHANGED <<remoteVars, sessionVars>>

Next ==
    \/ ParseFail
    \/ ParseOk
    \/ SkipProcessed
    \/ ListFail
    \/ ListOk
    \/ ItemDir
    \/ ItemFetchOk
    \/ ItemFetchFail
    \/ ItemIgnored
    \/ ReturnNone
    \/ ReturnFiles

Spec == Init /\ [][Next]_vars

\* The walks whose length is in question: the canonical URL against every
\* tree made of the entries that decide how long a walk runs (the
\* directories, one file that is fetched and one that is not), and a URL
\* that does not parse.
LoopEntries ==
    {DirEntry(d) : d \in Dirs}
    \cup { FileEntry("a/app.js", <<"app", ".", "js">>),
           FileEntry("README.md", <<"README", ".", "md">>) }

InitLoop ==
    /\ InitSession
    /\ \/ \E s \in SeqsUpTo(LoopEntries, MaxTotal) :
             \E c1 \in 0..Len(s) : \E c2 \in c1..Len(s) :
                 \E objects \in SUBSET MayBeObject(s, c1, c2) :
                     InitWalk(CanonicalURL, TreeOf(s, c1, c2, objects))
       \/ InitWalk(<<"github.com", "/", "acme">>, EmptyTree)

\* the calls are synchronous and each request returns: the walk keeps
\* taking steps while it has one to take
FairSpec == InitLoop /\ [][Next]_vars /\ WF_vars(Next)

\* ------------------------------------------------- main: the session
\* what generate_ui and improve_code may hand back: extract_code returns
\* the model's text, which may be empty
Codes == {"", "code"}

\* the multiselect's choices and the text area's contents, two of each
Categories == {<<>>, <<"Functionality">>}

Details == {"", "fix it"}

\* Python truth of st.session_state.generated_code
Truthy(code) == code # NoneValue /\ code # ""

\* the sidebar: for i, feedback in enumerate(feedback_history), the
\* expander of the entry at 1-based position k is titled "Version k"
SidebarLabel(k) == k

\* Generate UI, a URL and a key given, with files found: the code is
\* stored and the version counted
GenerateOk ==
    /\ current_version < MaxVersion
    /\ \E code \in Codes : generated_code' = code
    /\ current_version' = current_version + 1
    /\ notice' = "success: initial UI generated"
    /\ UNCHANGED feedback_history
    /\ UNCHANGED <<walkVars, remoteVars>>

\* Generate UI when extract_frontend_files returns None
GenerateNoFiles ==
    /\ notice' = "error: no suitable files"
    /\ UNCHANGED <<generated_code, feedback_history, current_version>>
    /\ UNCHANGED <<walkVars, remoteVars>>

\* Generate UI when generate_ui raises: the handler of the form reports it
GenerateRaises ==
    /\ notice' = "error: exception"
    /\ UNCHANGED <<generated_code, feedback_history, current_version>>
    /\ UNCHANGED <<walkVars, remoteVars>>

\* Submit Feedback and Improve: the entry is stored, the code improved,
\* the version counted
SubmitImproved ==
    /\ Truthy(generated_code)
    /\ current_version < MaxVersion
    /\ Len(feedback_history) < MaxHistory
    /\ \E cats \in Categories, text \in Details \ {""} :
           feedback_history' =
               Append(feedback_history,
                      [version |-> current_version, categories |-> cats,
                       details |-> text])
    /\ \E code \in Codes : generated_code' = code
    /\ current_version' = current_version + 1
    /\ notice' = "success: code improved"
    /\ UNCHANGED <<walkVars, remoteVars>>

\* Submit Feedback and Improve when improve_code raises: the entry was
\* appended before the call, nothing after it runs
SubmitRaises ==
    /\ Truthy(generated_code)
    /\ Len(feedback_history) < MaxHistory
    /\ \E cats \in Categories, text \in Details \ {""} :
           feedback_history' =
               Append(feedback_history,
                      [version |-> current_version, categories |-> cats,
                       details |-> text])
    /\ notice' = "exception"
    /\ UNCHANGED <<generated_code, current_version>>
    /\ UNCHANGED <<walkVars, remoteVars>>

\* Submit Feedback and Improve with an empty text area
SubmitEmpty ==
    /\ Truthy(generated_code)
    /\ notice' = "warning: provide detailed feedback"
    /\ UNCHANGED <<generated_code, feedback_history, current_version>>
    /\ UNCHANGED <<walkVars, remoteVars>>

\* Start Over
StartOver ==
    /\ Truthy(generated_code)
    /\ generated_code' = NoneValue
    /\ feedback_history' = <<>>
    /\ current_version' = 0
    /\ notice' = "none"
    /\ UNCHANGED <<walkVars, remoteVars>>

NextUI ==
    \/ GenerateOk
    \/ GenerateNoFiles
    \/ GenerateRaises
    \/ SubmitImproved
    \/ SubmitRaises
    \/ SubmitEmpty
    \/ StartOver

\* a session of main alone: the walk stands still
InitUI ==
    /\ InitSession
    /\ InitWalk(CanonicalURL, EmptyTree)

SpecUI == InitUI /\ [][NextUI]_vars

\* ------------------------------------------- vocabulary of the claims
Done == pc = "done"

\* the listing of d as the walk reads it
Items(d) == Normalize(remote[d])

\* every entry occurrence of the tree: <<directory, position>>
Occurrences == {<<d, i>> : d \in Dirs, i \in 1..MaxTotal}

EntryAt(o) == Items(o[1])[o[2]]

InTree(o) == o[2] <= Len(Items(o[1]))

\* the directories whose listing was requested, and those that answered
Listed == {d \in Dirs : listCount[d] > 0}

ListedOk == Listed \ listFailed

\* the directories the root leads to through directory entries
RECURSIVE ReachableFrom(_)
ReachableFrom(S) ==
    LET more == S \cup {e.path : e \in {x \in UNION {Range(Items(d)) : d \in S} :
                                             x.type = "dir"}}
    IN  IF more = S THEN S ELSE ReachableFrom(more)

Reachable == ReachableFrom({""})

\* the allow-list as the specification gives it, and a name's extension:
\* the text from the last dot on, unless that dot opens or ends the name
AllowList == {"html", "css", "js", "jsx", "tsx", "vue", "py"}

HasAllowedExtension(name) ==
    /\ Len(name) >= 3
    /\ name[Len(name) - 1] = "."
    /\ name[Len(name)] \in AllowList

Qualifies(e) == e.type = "file" /\ HasAllowedExtension(e.name)

\* the record the specification asks for an entry
RecordOf(e) ==
    [path |-> e.path, content |-> Content(e.download_url),
     type |-> <<".", e.name[Len(e.name)]>>]

\* the occurrence origin[k] produced the k-th record, which is complete
RecordsMatchOrigin ==
    /\ Len(origin) = Len(frontend_files)
    /\ \A k \in 1..Len(origin) :
           /\ InTree(origin[k])
           /\ frontend_files[k] = RecordOf(EntryAt(origin[k]))

\* occurrence o of a listed directory was handled as the walk handles
\* entries: a directory's path was enqueued and its listing requested, a
\* qualifying file was content-fetched and, unless that failed, recorded
Handled(o) ==
    LET e == EntryAt(o)
    IN  /\ e.type = "dir" => e.path \in Range(enqOrder) /\ e.path \in Listed
        /\ Qualifies(e) =>
               /\ o \in fetched
               /\ o \notin fetchFailed =>
                      \E k \in 1..Len(result.value) :
                          origin[k] = o /\ result.value[k] = RecordOf(e)

\* ---------------------------------------------------------- claims
\* C1: within one call the listing of any path is requested at most once,
\* whatever the listings repeat or loop back to.
C1_ListedAtMostOnce == \A d \in Dirs : listCount[d] <= 1

\* C1's case: the root names "a" twice and "a" names the root; both were
\* listed and the call returned.
C1_Witness ==
    /\ Done
    /\ Items("") = <<DirEntry("a"), DirEntry("a")>>
    /\ Items("a") = <<DirEntry("")>>
    /\ listCount[""] = 1
    /\ listCount["a"] = 1

\* C2: after the listing of a subdirectory failed, every path that was
\* enqueued has still had its listing requested, every allow-listed file
\* of the directories that answered and whose content arrived is in the
\* returned sequence, and every record collected is in it.
C2_ListingFailureTolerated ==
    (Done /\ \E d \in listFailed : d # "") =>
        /\ Range(enqOrder) \subseteq Listed
        /\ \A o \in Occurrences : (o[1] \in ListedOk /\ InTree(o)) => Handled(o)
        /\ result.value = frontend_files
        /\ fetched \ fetchFailed = Range(origin)
        /\ RecordsMatchOrigin

\* C2's case: "a" failed to list, its sibling "b" was listed after it
\* and its file is returned.
C2_Witness ==
    /\ Done
    /\ Items("") = <<DirEntry("a"), DirEntry("b")>>
    /\ Items("b") = <<FileEntry("run.py", <<"run", ".", "py">>)>>
    /\ listFailed = {"a"}
    /\ result = Returned(<<RecordOf(FileEntry("run.py", <<"run", ".", "py">>))>>)

\* C3: a file whose content fetch failed has no record, no record is
\* partial, and every entry of every listed directory was still handled:
\* directories enqueued, the other allow-listed files fetched and recorded.
C3_FetchFailureTolerated ==
    (Done /\ fetchFailed # {}) =>
        /\ \A o \in fetchFailed : o \notin Range(origin)
        /\ RecordsMatchOrigin
        /\ result.value = frontend_files
        /\ \A o \in Occurrences : (o[1] \in ListedOk /\ InTree(o)) => Handled(o)

\* C3's case: the first file of the root failed, the file after it in the
\* same listing and the directory after that were processed.
C3_Witness ==
    /\ Done
    /\ Items("") = << FileEntry("a/app.js", <<"app", ".", "js">>),
                      FileEntry("run.py", <<"run", ".", "py">>),
                      DirEntry("a") >>
    /\ fetchFailed = {<<"", 1>>}
    /\ result = Returned(<<RecordOf(FileEntry("run.py", <<"run", ".", "py">>))>>)
    /\ "a" \in Listed

\* C4: a repository none of whose reachable listings holds a file of an
\* allow-listed extension makes the call return None by the "no frontend
\* files" exit, never by the error exit.
C4_NoMatchReturnsNone ==
    ( /\ Done
      /\ ~ParseRaises(repo_url)
      /\ \A o \in Occurrences :
             (o[1] \in Reachable /\ InTree(o)) => ~Qualifies(EntryAt(o)) )
    => (outcome = "empty" /\ result = ReturnedNone)

\* C4's case: a walked repository holding only a README and a dot-file.
C4_Witness ==
    /\ Done
    /\ Items("") = <<DirEntry("a"), FileEntry("README.md", <<"README", ".", "md">>)>>
    /\ Items("a") = <<FileEntry(".js", <<".", "js">>)>>
    /\ listFailed = {}
    /\ outcome = "empty"

\* the URL holds the host marker and the text after it is one path
\* segment: not empty, and without a slash
OneSegment(u) ==
    /\ AfterHostMarker(u) # u
    /\ AfterHostMarker(u) # <<>>
    /\ "/" \notin Range(AfterHostMarker(u))

\* C5: a URL of one path segment ends the call by the error exit before
\* any listing request, and what the caller gets differs from the None
\* of the "no matching files" outcome.
C5_MalformedUrlDistinct ==
    (Done /\ OneSegment(repo_url)) =>
        /\ \A d \in Dirs : listCount[d] = 0
        /\ outcome = "error"
        /\ result # ReturnedNone

\* C6: when every fetch succeeded, the records returned are exactly those
\* of the allow-listed file entries in the listings of the directories
\* reachable from the root, each with the entry's path, the fetched text
\* and the extension; no other entry was content-fetched.
C6_ExactRecords ==
    (Done /\ ~ParseRaises(repo_url) /\ listFailed = {} /\ fetchFailed = {}) =>
        LET expected == {o \in Occurrences :
                             o[1] \in Reachable /\ InTree(o) /\ Qualifies(EntryAt(o))}
        IN  /\ Range(origin) = expected
            /\ Len(origin) = Cardinality(expected)
            /\ fetched = expected
            /\ RecordsMatchOrigin
            /\ result.value = frontend_files
            /\ Range(result.value) = {RecordOf(EntryAt(o)) : o \in expected}

\* C6's case: root = [dir a, file README.md], a = [file a/app.js] yields
\* the one record of a/app.js.
C6_Witness ==
    /\ Done
    /\ Items("") = <<DirEntry("a"), FileEntry("README.md", <<"README", ".", "md">>)>>
    /\ Items("a") = <<FileEntry("a/app.js", <<"app", ".", "js">>)>>
    /\ listFailed = {}
    /\ fetchFailed = {}
    /\ result = Returned(<<[path |-> "a/app.js",
                            content |-> Content(<<"raw", "a/app.js">>),
                            type |-> <<".", "js">>]>>)

\* C7: no two records of the collected sequence have the same path.
C7_UniquePaths ==
    \A j, k \in 1..Len(frontend_files) :
        j # k => frontend_files[j].path # frontend_files[k].path

\* C8: the walk terminates: the call returns.
C8_Terminates == <>Done

\* C8's case: a walk that returned although a listing named its own
\* directory and another named the root.
C8_Witness ==
    /\ Done
    /\ DirEntry("a") \in Range(Items("a"))
    /\ DirEntry("") \in Range(Items("a"))
    /\ "a" \in ListedOk

\* the position of directory d in the order of listing requests
Rank(d) == CHOOSE k \in 1..Len(listOrder) : listOrder[k] = d

\* C9: listings are requested in the order the paths were first enqueued,
\* the root first, and records come in discovery order: by the listing
\* order of their directory, then by position in its listing.
C9_BreadthFirstOrder ==
    /\ IsPrefix(listOrder, enqOrder)
    /\ (enqOrder # <<>> => enqOrder[1] = "")
    /\ (pc = "loop" /\ to_process = <<>>) => listOrder = enqOrder
    /\ RecordsMatchOrigin
    /\ \A j, k \in 1..Len(origin) :
           j < k =>
               \/ Rank(origin[j][1]) < Rank(origin[k][1])
               \/ origin[j][1] = origin[k][1] /\ origin[j][2] < origin[k][2]
    /\ (Done /\ outcome = "files") => result.value = frontend_files

\* C9's case: the root lists directory "a" before its own file, and the
\* root's file still precedes the file found in "a".
C9_Witness ==
    /\ Done
    /\ Items("") = <<DirEntry("a"), FileEntry("run.py", <<"run", ".", "py">>)>>
    /\ Items("a") = <<FileEntry("a/app.js", <<"app", ".", "js">>)>>
    /\ listOrder = <<"", "a">>
    /\ result = Returned(<< RecordOf(FileEntry("run.py", <<"run", ".", "py">>)),
                            RecordOf(FileEntry("a/app.js", <<"app", ".", "js">>)) >>)

\* C10: the feedback entry at 1-based position k records version k, the
\* number its sidebar label shows.
C10_LabelMatchesVersion ==
    \A k \in 1..Len(feedback_history) :
        feedback_history[k].version = SidebarLabel(k)

====
